---- MODULE Spec2Model ----
(***************************************************************************)
(* Model of gata-data-prep: prepare.py (the batch run), src/db.py (the     *)
(* RDS Data API client), src/dataset.py and src/utils.py (the helpers).    *)
(*                                                                         *)
(* A DataFrame is a bag of rows.  A row is [src, orig, label]: src and     *)
(* orig stand for the immutable id/text columns (which fetch produced the  *)
(* row and the label it was fetched with), label is the mutable "label"    *)
(* column.  A label is [t, v]: t is "int" or "str" (a Python int, or a     *)
(* str holding the decimal digits of v).                                   *)
(***************************************************************************)
EXTENDS Integers, Sequences, FiniteSets, Bags, TLC

VARIABLES
    argv,                \* sys.argv[1:], each argument a sequence of characters
    batch_id,            \* the argument of main, <<>> before the call
    rep,                 \* how the record source encodes labels: "int" or "str"
    pc,                  \* position of the run
    exc,                 \* the exception that ended main, "none" if none
    exit_status,         \* process exit status, -1 while running
    events,              \* external calls and splits, in the order made
    start,               \* prepare.py:52
    end,                 \* prepare.py:53
    db,                  \* the DbClient and its _prime_connection locals
    last_select,         \* outcome of the latest DbClient.select call
    fetched,             \* the rows the primary fetch returned, as fetched
    general_df,          \* prepare.py:62, relabelled in place at :94
    low_volume_labels,   \* prepare.py:68
    create_low_volume,   \* prepare.py:78
    low_volume_label_id, \* prepare.py:77,83
    general_train_df,    \* prepare.py:98
    general_test_df,     \* prepare.py:98
    low_vol_df,          \* prepare.py:125,134,149
    low_vol_train_df,    \* prepare.py:152
    low_vol_test_df,     \* prepare.py:152
    merged,              \* low_vol_df as it was right after the concat of :134
    split_arg,           \* the frames handed to dataset.split, in order
    s3,                  \* the object store: key -> rows written
    source,              \* the rows the record source holds, in query order
    source_kind,         \* how the record source answers a page request
    params_offset,       \* tickets.py:81,115: the "offset" query parameter
    pages,               \* the pages DbClient.select returned, in order
    tickets,             \* tickets.py:42: the list get_tickets builds
    frame,               \* a DataFrame held by a caller of the helpers
    op,                  \* the helper called last, with its arguments
    result               \* what that helper returned

vars == <<argv, batch_id, rep, pc, exc, exit_status, events, start, end, db,
          last_select, fetched, general_df, low_volume_labels,
          create_low_volume, low_volume_label_id, general_train_df,
          general_test_df, low_vol_df, low_vol_train_df, low_vol_test_df,
          merged, split_arg, s3, source, source_kind, params_offset, pages,
          tickets,
          frame, op, result>>

(***************************************************************************)
(* Configuration and program constants                                     *)
(***************************************************************************)
TestSplitNum == 1
TestSplitDen == 10
SparseFloor == 10
LOW_VOLUME_FALLBACK_LABEL == 99
LOW_VOLUME_MIN_COUNT == 10
LOW_VOLUME_PERIOD == 365
ThresholdNum == 33
ThresholdDen == 1000
TRAINING_PERIOD == 90
MaxPrimeAttempts == 10
PageLimit == 50

\* Bounds of the model
Bulk == 300
Few == 1
MaxSelects == 2

(***************************************************************************)
(* Labels                                                                  *)
(***************************************************************************)
IntL(n) == [t |-> "int", v |-> n]
StrL(n) == [t |-> "str", v |-> n]
Lab(r, n) == [t |-> r, v |-> n]

\* int(x) of prepare's labels: an int stays, a digit string is parsed.
PyInt(x) == IntL(x.v)

\* The decimal digits of n, most significant first.
RECURSIVE Digits(_)
Digits(n) == IF n < 10 THEN <<n>> ELSE Append(Digits(n \div 10), n % 10)

RECURSIVE SeqLess(_, _)
SeqLess(a, b) ==
    IF a = <<>> THEN b # <<>>
    ELSE IF b = <<>> THEN FALSE
    ELSE IF Head(a) # Head(b) THEN Head(a) < Head(b)
    ELSE SeqLess(Tail(a), Tail(b))

\* Python's < on two labels of one type: numeric on ints, lexicographic on
\* strings.
LabelLess(a, b) ==
    IF a.t = "int" THEN a.v < b.v ELSE SeqLess(Digits(a.v), Digits(b.v))

\* sorted(S) for a set of labels of one type.
RECURSIVE SortLabels(_)
SortLabels(S) ==
    IF S = {} THEN <<>>
    ELSE LET m == CHOOSE x \in S : \A y \in S \ {x} : LabelLess(x, y)
         IN  <<m>> \o SortLabels(S \ {m})

Range(s) == {s[i] : i \in DOMAIN s}

(***************************************************************************)
(* DataFrames as bags of rows                                              *)
(***************************************************************************)
Row(s, o, l) == [src |-> s, orig |-> o, label |-> l]

Len_df(df) == BagCardinality(df)

LabelsOf(df) == {r.label : r \in BagToSet(df)}

RECURSIVE SumOver(_, _)
SumOver(S, df) ==
    IF S = {} THEN 0
    ELSE LET r == CHOOSE x \in S : TRUE
         IN  df[r] + SumOver(S \ {r}, df)

\* Number of rows of df whose label column equals l.
CountOf(df, l) == SumOver({r \in BagToSet(df) : r.label = l}, df)

\* df[mask]: the rows of df in the set S.
Select_df(df, S) == [r \in S \cap BagToSet(df) |-> df[r]]

(***************************************************************************)
(* src/dataset.py                                                          *)
(***************************************************************************)
\* filter(df, labels): df[df["label"].isin(labels)].  Membership is Python
\* equality, so the string "5" is not the int 5.
filter(df, labels) ==
    Select_df(df, {r \in BagToSet(df) : r.label \in Range(labels)})

\* Mutant: a share equal to the threshold counts as below it.
find_threshold_Inclusive(df, num, den) ==
    SortLabels({l \in LabelsOf(df) : CountOf(df, l) * den <= num * Len_df(df)})

\* find_threshold(df, threshold): the labels whose share of the rows is
\* strictly below the threshold num/den, sorted.
find_threshold(df, num, den) ==
    SortLabels({l \in LabelsOf(df) : CountOf(df, l) * den < num * Len_df(df)})

\* Mutant: a label that is not replaced is kept as it is, without int().
substitute_label_NoInt(x, old_labels, new_label) ==
    IF x \in Range(old_labels) THEN IntL(new_label) ELSE x

\* update_label(df, old_labels, new_label): rewrites the label column of df.
\* The caller's frame is the frame returned (see the use in UpdateLabels).
substitute_label(x, old_labels, new_label) ==
    IF x \in Range(old_labels) THEN IntL(new_label) ELSE PyInt(x)

update_label(df, old_labels, new_label) ==
    LET new(r) == [r EXCEPT !.label =
                       substitute_label(r.label, old_labels, new_label)]
        img == {new(r) : r \in BagToSet(df)}
    IN  [q \in img |-> SumOver({r \in BagToSet(df) : new(r) = q}, df)]

\* ceil(a / b) for a >= 0, b > 0.
CeilDiv(a, b) == (a + b - 1) \div b

\* Mutant: the test size is rounded down.
NTest_Floor(n, num, den) == (num * n) \div den

\* Sizes chosen by train_test_split for n rows and test_size num/den:
\* n_test = ceil(test_size * n), n_train = n - n_test.
NTest(n, num, den) == CeilDiv(num * n, den)
NTrain(n, num, den) == n - NTest(n, num, den)

\* Mutant: a class with a single member is not rejected.
SplitRaises_NoMinClass(df, num, den) ==
    LET n == Len_df(df)
        k == Cardinality(LabelsOf(df))
    IN  \/ NTrain(n, num, den) = 0
        \/ NTrain(n, num, den) < k
        \/ NTest(n, num, den) < k

\* train_test_split(..., stratify=df["label"]) raises ValueError when the
\* train set would be empty, when a class has fewer than 2 members, or when
\* either part is smaller than the number of classes.
SplitRaises(df, num, den) ==
    LET n == Len_df(df)
        k == Cardinality(LabelsOf(df))
    IN  \/ NTrain(n, num, den) = 0
        \/ \E l \in LabelsOf(df) : CountOf(df, l) < 2
        \/ NTrain(n, num, den) < k
        \/ NTest(n, num, den) < k

RECURSIVE SumFn(_, _)
SumFn(f, S) ==
    IF S = {} THEN 0
    ELSE LET x == CHOOSE y \in S : TRUE IN f[x] + SumFn(f, S \ {x})

\* The per-class train sizes the stratified split may use: each class gets
\* the floor of its proportional share of n_train, and the rows left over go
\* to the classes with the largest remainders (ties broken by the generator).
TrainAllocations(df, num, den) ==
    LET n     == Len_df(df)
        ntr   == NTrain(n, num, den)
        cls   == LabelsOf(df)
        fl    == [l \in cls |-> (CountOf(df, l) * ntr) \div n]
        rm    == [l \in cls |-> (CountOf(df, l) * ntr) % n]
        need  == ntr - SumFn(fl, cls)
    IN  { [l \in cls |-> fl[l] + (IF l \in E THEN 1 ELSE 0)] :
            E \in { X \in SUBSET cls :
                      /\ Cardinality(X) = need
                      /\ \A a \in X, b \in cls \ X : rm[a] >= rm[b] } }

\* The ways to take t rows out of the rows of df with label l.
ClassDraws(df, l, t) ==
    LET K == {r \in BagToSet(df) : r.label = l}
    IN  { f \in [K -> 0..t] :
            /\ \A r \in K : f[r] <= df[r]
            /\ SumFn(f, K) = t }

\* The test parts obtainable for the classes cls under train sizes alloc,
\* as functions over the rows of those classes.
RECURSIVE TestParts(_, _, _)
TestParts(df, cls, alloc) ==
    IF cls = {} THEN { <<>> }
    ELSE LET l    == CHOOSE x \in cls : TRUE
             rest == TestParts(df, cls \ {l}, alloc)
         IN  { f @@ g : f \in ClassDraws(df, l, CountOf(df, l) - alloc[l]),
                        g \in rest }

Positive(f) == [r \in {x \in DOMAIN f : f[x] > 0} |-> f[r]]

\* split(df, test_size): every (train, test) pair the seeded stratified
\* shuffle can return; the set is empty exactly when the split raises.
split(df, num, den) ==
    IF SplitRaises(df, num, den) THEN {}
    ELSE UNION { { [train |-> Positive([r \in BagToSet(df) |-> df[r] - t[r]]),
                    test  |-> Positive(t)] :
                   t \in TestParts(df, LabelsOf(df), alloc) } :
                 alloc \in TrainAllocations(df, num, den) }

(***************************************************************************)
(* src/utils.py                                                            *)
(***************************************************************************)
\* Mutant: the table stays in the order of value_counts, most frequent
\* label first.
RECURSIVE ByFrequency(_, _)
ByFrequency(S, df) ==
    IF S = {} THEN <<>>
    ELSE LET m == CHOOSE x \in S :
                     \A y \in S \ {x} :
                        \/ CountOf(df, x) > CountOf(df, y)
                        \/ CountOf(df, x) = CountOf(df, y) /\ LabelLess(x, y)
         IN  <<m>> \o ByFrequency(S \ {m}, df)

count_labels_ByFrequency(df) ==
    LET ls == ByFrequency(LabelsOf(df), df)
    IN  [i \in DOMAIN ls |-> [Label |-> ls[i], Count |-> CountOf(df, ls[i])]]

\* count_labels(df): one row per label with its count, sorted by label.
count_labels(df) ==
    LET ls == SortLabels(LabelsOf(df))
    IN  [i \in DOMAIN ls |-> [Label |-> ls[i], Count |-> CountOf(df, ls[i])]]

\* label_counts.loc[label_counts["Label"] == label]["Count"].iloc[0]
CountLookup(table, label) ==
    LET i == CHOOSE j \in DOMAIN table : table[j].Label = label
    IN  table[i].Count

\* Characters.  A character is a one-character string for ASCII and the
\* code point ("U+0662") otherwise.  Python's decimal digits are the Unicode
\* category Nd: the ASCII digits and, as representatives of the others, the
\* Arabic-Indic, Devanagari and fullwidth digits.  "sup2" stands for the
\* superscript two (U+00B2): str.isdigit accepts it, the \d of strptime and
\* int() do not.
AsciiDigits == {"0", "1", "2", "3", "4", "5", "6", "7", "8", "9"}
ArabicIndicDigits ==
    <<"U+0660", "U+0661", "U+0662", "U+0663", "U+0664", "U+0665", "U+0666",
      "U+0667", "U+0668", "U+0669">>
DevanagariDigits ==
    <<"U+0966", "U+0967", "U+0968", "U+0969", "U+096A", "U+096B", "U+096C",
      "U+096D", "U+096E", "U+096F">>
FullwidthDigits ==
    <<"U+FF10", "U+FF11", "U+FF12", "U+FF13", "U+FF14", "U+FF15", "U+FF16",
      "U+FF17", "U+FF18", "U+FF19">>
DigitFamilies == {ArabicIndicDigits, DevanagariDigits, FullwidthDigits}

\* What the regular expression \d (str pattern) and int() accept.
IsDecimalChar(c) ==
    \/ c \in AsciiDigits
    \/ \E f \in DigitFamilies : \E i \in DOMAIN f : f[i] = c

\* What str.isdigit accepts of one character.
IsDigitChar(c) == IsDecimalChar(c) \/ c = "sup2"

\* int(c) of a decimal digit.
DigitVal(c) ==
    CASE c = "0" -> 0 [] c = "1" -> 1 [] c = "2" -> 2 [] c = "3" -> 3
      [] c = "4" -> 4 [] c = "5" -> 5 [] c = "6" -> 6 [] c = "7" -> 7
      [] c = "8" -> 8 [] c = "9" -> 9
      [] OTHER ->
           LET f == CHOOSE g \in DigitFamilies : \E i \in DOMAIN g : g[i] = c
           IN  (CHOOSE i \in DOMAIN f : f[i] = c) - 1

\* str.isdigit(): non-empty and every character a digit.
isdigit(s) == s # <<>> /\ \A i \in DOMAIN s : IsDigitChar(s[i])

RECURSIVE Number(_)
Number(s) ==
    IF s = <<>> THEN 0
    ELSE 10 * Number(SubSeq(s, 1, Len(s) - 1)) + DigitVal(s[Len(s)])

IsLeap(y) == y % 4 = 0 /\ (y % 100 # 0 \/ y % 400 = 0)
DaysInMonth(y, m) ==
    IF m = 2 THEN (IF IsLeap(y) THEN 29 ELSE 28)
    ELSE IF m \in {4, 6, 9, 11} THEN 30 ELSE 31

RECURSIVE DaysBeforeMonth(_, _)
DaysBeforeMonth(y, m) ==
    IF m = 1 THEN 0 ELSE DaysBeforeMonth(y, m - 1) + DaysInMonth(y, m - 1)

\* date.toordinal(): 0001-01-01 is day 1.
Ordinal(y, m, d) ==
    (y - 1) * 365 + (y - 1) \div 4 - (y - 1) \div 100 + (y - 1) \div 400
    + DaysBeforeMonth(y, m) + d

\* The directives of _strptime's regular expression, for a field that takes
\* its full width (two characters; four for %Y).  Only \d matches a
\* non-ASCII decimal digit: the literal digits and the classes do not.
\*   %Y  \d\d\d\d
\*   %m  1[0-2]|0[1-9]|[1-9]
\*   %d  3[0-1]|[1-2]\d|0[1-9]|[1-9]| [1-9]
\*   %H  2[0-3]|[0-1]\d|\d
InRange(c, lo, hi) ==
    c \in AsciiDigits /\ DigitVal(c) >= lo /\ DigitVal(c) <= hi

MatchY(f) == \A i \in DOMAIN f : IsDecimalChar(f[i])

MatchM(f) ==
    \/ f[1] = "1" /\ InRange(f[2], 0, 2)
    \/ f[1] = "0" /\ InRange(f[2], 1, 9)

MatchD(f) ==
    \/ f[1] = "3" /\ InRange(f[2], 0, 1)
    \/ InRange(f[1], 1, 2) /\ IsDecimalChar(f[2])
    \/ f[1] = "0" /\ InRange(f[2], 1, 9)
    \/ f[1] = " " /\ InRange(f[2], 1, 9)

\* Mutant: the hour field is any two decimal digits.
MatchH_AnyHour(f) == IsDecimalChar(f[1]) /\ IsDecimalChar(f[2])

MatchH(f) ==
    \/ f[1] = "2" /\ InRange(f[2], 0, 3)
    \/ InRange(f[1], 0, 1) /\ IsDecimalChar(f[2])

\* int() of a matched field: surrounding whitespace is stripped.
FieldInt(f) == IF f[1] = " " THEN Number(Tail(f)) ELSE Number(f)

\* strptime(batch_id + "0000Z", "%Y%m%d%H%M%S%z") for a batch_id of 10
\* characters, the only length main lets through.  With 14 characters before
\* the Z every field takes its full width; the result is the parsed instant
\* (UTC) or carries the error raised.
TimeError(e) == [err |-> e, ord |-> 0, sec |-> 0, us |-> 0]

strptime(s) ==
    LET fy == SubSeq(s, 1, 4)
        fm == SubSeq(s, 5, 6)
        fd == SubSeq(s, 7, 8)
        fh == SubSeq(s, 9, 10)
    IN  IF ~(MatchY(fy) /\ MatchM(fm) /\ MatchD(fd) /\ MatchH(fh))
        THEN TimeError("ValueError")
        ELSE LET y == FieldInt(fy)
                 m == FieldInt(fm)
                 d == FieldInt(fd)
                 h == FieldInt(fh)
             IN  IF y < 1 \/ d > DaysInMonth(y, m)
                 THEN TimeError("ValueError")
                 ELSE [err |-> "none", ord |-> Ordinal(y, m, d),
                       sec |-> h * 3600, us |-> 0]

\* datetime - timedelta(days): OverflowError below 0001-01-01.
MinusDays(dt, days) ==
    IF dt.ord - days < 1 THEN TimeError("OverflowError")
    ELSE [dt EXCEPT !.ord = dt.ord - days]

\* get_end_datetime(batch_id): the last microsecond of the day before the
\* batch day.
get_end_datetime(s) ==
    LET b == strptime(s)
    IN  IF b.err # "none" THEN b
        ELSE LET p == MinusDays(b, 1)
             IN  IF p.err # "none" THEN p
                 ELSE [err |-> "none", ord |-> p.ord, sec |-> 86399,
                       us |-> 999999]

\* get_start_datetime(batch_id, offset): the batch instant minus offset days.
get_start_datetime(s, offset) ==
    LET b == strptime(s)
    IN  IF b.err # "none" THEN b ELSE MinusDays(b, offset)

\* date(1970, 1, 1).toordinal() and the seconds of a day.
EpochOrdinal == 719163
SecondsPerDay == 86400

\* 2^34 seconds after the epoch, as day and second of the day: from there
\* on a float cannot hold .999999 and timestamp() rounds it up.
RoundUpDay == 198841
RoundUpSec == 6784

\* int(dt.timestamp()) as [day, sec]: whole days since 1970-01-01 and the
\* second of that day.  timestamp() is a float and int() truncates towards
\* zero: a fraction is cut off after the epoch and rounds up to the next
\* second before it.  (The only fraction the program produces is .999999.)
timestamp(dt) ==
    LET day == dt.ord - EpochOrdinal
        up  == /\ dt.us > 0
               /\ \/ day < 0
                  \/ day > RoundUpDay
                  \/ day = RoundUpDay /\ dt.sec >= RoundUpSec
        sec == IF up THEN dt.sec + 1 ELSE dt.sec
    IN  IF sec = SecondsPerDay THEN [day |-> day + 1, sec |-> 0]
        ELSE [day |-> day, sec |-> sec]

\* a <= b on such timestamps.
TsLeq(a, b) == a.day < b.day \/ (a.day = b.day /\ a.sec <= b.sec)

\* The "start" and "end" parameters _load_tickets sends for a window.
window_params(a, b) == [start |-> timestamp(a), end |-> timestamp(b)]

\* closed BETWEEN :start AND :end
Between(closed, params) ==
    TsLeq(params.start, closed) /\ TsLeq(closed, params.end)

(***************************************************************************)
(* src/db.py: DbClient                                                     *)
(***************************************************************************)
NoClient ==
    [state |-> "none", error |-> "none", attempts |-> 0, connected |-> FALSE,
     execute_calls |-> 0, cluster_arn |-> "", secret_arn |-> "",
     db_name |-> ""]

NoSelect == [n |-> 0, query |-> <<>>, result |-> "none", rows |-> <<>>]

\* DbClient.__init__ up to the call of _prime_connection.
NewClient(cluster_arn, secret_arn, db_name) ==
    [state |-> "priming", error |-> "none", attempts |-> 0,
     connected |-> FALSE, execute_calls |-> 0, cluster_arn |-> cluster_arn,
     secret_arn |-> secret_arn, db_name |-> db_name]

\* Mutant: the loop admits one attempt too many.
PrimeLoopContinues_OffByOne(attempts) == attempts <= MaxPrimeAttempts

\* The loop condition of _prime_connection.
PrimeLoopContinues(attempts) == attempts < MaxPrimeAttempts

\* What the probe statement of one attempt can answer.
ProbeOutcomes == {"ok", "resuming", "error"}

\* One pass through the body of the while loop of _prime_connection, with the
\* code after the loop when that pass ends it.  Any exception other than
\* DatabaseResumingException leaves the constructor at once.
PrimeStep(c, outcome) ==
    LET called == [c EXCEPT !.execute_calls = c.execute_calls + 1]
    IN  CASE outcome = "ok" ->
               [called EXCEPT !.connected = TRUE, !.state = "ready"]
          [] outcome = "resuming" ->
               IF PrimeLoopContinues(c.attempts + 1)
               THEN [called EXCEPT !.attempts = c.attempts + 1]
               ELSE [called EXCEPT !.attempts = c.attempts + 1,
                                   !.state = "failed",
                                   !.error = "ConnectionError"]
          [] outcome = "error" ->
               [called EXCEPT !.state = "failed", !.error = "ClientError"]

PrimeAttempt ==
    /\ db.state = "priming"
    /\ PrimeLoopContinues(db.attempts)
    /\ \E outcome \in ProbeOutcomes : db' = PrimeStep(db, outcome)
    /\ events' = Append(events, [call |-> "execute_statement"])
    /\ UNCHANGED <<argv, batch_id, rep, pc, exc, exit_status, start, end,
                   last_select, fetched, general_df, low_volume_labels,
                   create_low_volume, low_volume_label_id, general_train_df,
                   general_test_df, low_vol_df, low_vol_train_df,
                   low_vol_test_df, merged, split_arg, s3, source,
                   source_kind, params_offset, pages, tickets, frame, op,
                   result>>

\* str.startswith
startswith(s, prefix) ==
    Len(s) >= Len(prefix) /\ SubSeq(s, 1, Len(prefix)) = prefix

SELECT == <<"S", "E", "L", "E", "C", "T">>

\* Mutant: only the first letter of the query is looked at.
IsSelect_FirstLetter(query) == query # <<>> /\ query[1] = "S"

\* The guard of DbClient.select.
IsSelect(query) == startswith(query, SELECT)

\* DbClient.select(query, params) on client c, the data source answering
\* answer ([ok, rows]; ok is FALSE when execute_statement raises): the
\* client after the call and the outcome of the call.
select(c, query, answer) ==
    IF ~IsSelect(query)
    THEN [client |-> c, result |-> "ValueError", rows |-> <<>>]
    ELSE [client |-> [c EXCEPT !.execute_calls = c.execute_calls + 1],
          result |-> IF answer.ok THEN "ok" ELSE "ClientError",
          rows   |-> IF answer.ok THEN answer.rows ELSE <<>>]

\* Queries a caller of the client may pass.
Queries ==
    { SELECT \o <<" ", "1">>,
      SELECT,
      SELECT \o <<"E", "D">>,
      <<"s", "e", "l", "e", "c", "t", " ", "1">>,
      <<" ">> \o SELECT \o <<" ", "1">>,
      <<"S", "E", "L", "E", "C">>,
      <<"I", "N", "S", "E", "R", "T">>,
      <<"D", "E", "L", "E", "T", "E">>,
      <<>> }

\* Answers of the data source to a dispatched statement: pages of row ids.
Answers ==
    { [ok |-> TRUE, rows |-> <<>>], [ok |-> TRUE, rows |-> <<1>>],
      [ok |-> TRUE, rows |-> <<1, 2>>], [ok |-> FALSE, rows |-> <<>>] }

\* A caller constructs a client (as the tests do).
Construct ==
    /\ pc = "client"
    /\ db.state = "none"
    /\ db' = NewClient("cluster", "secret", "dbname")
    /\ UNCHANGED <<argv, batch_id, rep, pc, exc, exit_status, events, start,
                   end, last_select, fetched, general_df, low_volume_labels,
                   create_low_volume, low_volume_label_id, general_train_df,
                   general_test_df, low_vol_df, low_vol_train_df,
                   low_vol_test_df, merged, split_arg, s3, source,
                   source_kind, params_offset, pages, tickets, frame, op,
                   result>>

\* A caller runs a query on the constructed client.
Select ==
    /\ pc = "client"
    /\ db.state = "ready"
    /\ last_select.n < MaxSelects
    /\ \E q \in Queries, a \in Answers :
         LET r == select(db, q, a)
         IN  /\ db' = r.client
             /\ last_select' = [n |-> last_select.n + 1, query |-> q,
                                result |-> r.result, rows |-> r.rows]
             /\ events' = IF r.client.execute_calls # db.execute_calls
                          THEN Append(events, [call |-> "execute_statement"])
                          ELSE events
    /\ UNCHANGED <<argv, batch_id, rep, pc, exc, exit_status, start, end,
                   fetched, general_df, low_volume_labels, create_low_volume,
                   low_volume_label_id, general_train_df, general_test_df,
                   low_vol_df, low_vol_train_df, low_vol_test_df, merged,
                   split_arg, s3, source, source_kind, params_offset, pages,
                   tickets, frame, op, result>>

\* No helper called yet.
NoOp == [n |-> 0, name |-> "none", labels |-> <<>>, new_label |-> 0,
         num |-> 0, den |-> 1]
NoResult == [kind |-> "none", frame |-> <<>>, train |-> EmptyBag,
             test |-> EmptyBag, list |-> <<>>, same_object |-> FALSE]

NoTime == [err |-> "none", ord |-> 0, sec |-> 0, us |-> 0]

InitCommon ==
    /\ exc = "none"
    /\ exit_status = -1
    /\ events = <<>>
    /\ start = NoTime
    /\ end = NoTime
    /\ db = NoClient
    /\ last_select = NoSelect
    /\ fetched = EmptyBag
    /\ general_df = EmptyBag
    /\ low_volume_labels = <<>>
    /\ create_low_volume = FALSE
    /\ low_volume_label_id = 0
    /\ general_train_df = EmptyBag
    /\ general_test_df = EmptyBag
    /\ low_vol_df = EmptyBag
    /\ low_vol_train_df = EmptyBag
    /\ low_vol_test_df = EmptyBag
    /\ merged = EmptyBag
    /\ split_arg = <<>>
    /\ s3 = <<>>

\* No get_tickets call is being followed.
NoTickets ==
    /\ source = <<>>
    /\ source_kind = "stable"
    /\ params_offset = 0
    /\ pages = <<>>
    /\ tickets = <<>>

\* No caller of the helpers is being followed.
NoFrame ==
    /\ frame = <<>>
    /\ op = NoOp
    /\ result = NoResult

InitDb ==
    /\ InitCommon
    /\ NoTickets
    /\ NoFrame
    /\ argv = <<>>
    /\ batch_id = <<>>
    /\ rep = "int"
    /\ pc = "client"

NextDb == Construct \/ PrimeAttempt \/ Select

SpecDb == InitDb /\ [][NextDb]_vars

(***************************************************************************)
(* prepare.py: one run of the program                                      *)
(***************************************************************************)
\* Arguments the program may be started with.
BatchIds ==
    {
      <<"2", "0", "2", "4", "0", "3", "1", "5", "0", "0">>,  \* 2024031500: a batch at midnight
      <<"2", "0", "2", "4", "0", "3", "1", "5", "0", "5">>,  \* 2024031505: a batch at 05:00
      <<"0", "0", "0", "1", "0", "1", "0", "1", "0", "0">>,  \* 0001010100: valid, but the window start precedes 0001-01-01
      <<"0", "0", "0", "1", "0", "4", "0", "1", "0", "0">>,  \* 0001040100: valid, but the extended window start precedes 0001-01-01
      <<"2", "0", "2", "3", "0", "2", "2", "9", "0", "0">>,  \* 2023022900: no such day
      <<"2", "0", "2", "4", "0", "4", "3", "1", "0", "0">>,  \* 2024043100: no such day
      <<"2", "0", "2", "4", "1", "3", "0", "1", "0", "0">>,  \* 2024130100: month 13
      <<"2", "0", "2", "4", "0", "0", "0", "1", "0", "0">>,  \* 2024000100: month 00
      <<"2", "0", "2", "4", "0", "3", "1", "5", "2", "4">>,  \* 2024031524: hour 24
      <<"0", "0", "0", "0", "0", "1", "0", "1", "0", "0">>,  \* 0000010100: year 0
      <<"0">>,  \* 0: too short
      <<"2", "0", "2", "4", "0", "3", "1", "5", "0">>,  \* 202403150: 9 digits
      <<"2", "0", "2", "4", "0", "3", "1", "5", "0", "0", "0">>,  \* 20240315000: 11 digits
      <<"2", "0", "2", "4", "-", "0", "3", "-", "1", "5">>,  \* 2024-03-15: 10 characters, not digits
      <<"2", "0", "2", "4", "0", "3", "1", "5", "0", "x">>,  \* 202403150x: 10 characters, not digits
      <<"2", "0", "2", "4", "0", "3", "1", "5", "0", "sup2">>,  \* 202403150 followed by a superscript two
      <<"U+0662", "U+0660", "U+0662", "U+0664", "0", "3", "1", "U+096B", "0", "U+FF15">>,  \* 2024031505 with the year in Arabic-Indic digits, a Devanagari 5 in the day and a fullwidth 5 in the hour
      <<"U+0662", "U+0660", "U+0662", "U+0664", "0", "3", "1", "5", "0", "0">>,  \* 2024031500 with the year in Arabic-Indic digits
      <<"U+0660", "U+0660", "U+0660", "U+0660", "0", "3", "1", "5", "0", "0">>,  \* 0000031500 with the year in Arabic-Indic digits: year 0
      <<"2", "0", "2", "4", "U+0660", "3", "1", "5", "0", "0">>,  \* 2024031500 with an Arabic-Indic 0 in the month
      <<"2", "0", "2", "4", "0", "3", "U+0661", "5", "0", "0">>,  \* 2024031500 with an Arabic-Indic 1 heading the day
      <<"2", "0", "2", "4", "0", "3", "1", "5", "2", "U+0663">>,  \* 2024031523 with an Arabic-Indic 3 ending the hour
      <<"2", "0", "2", "4", "0", "3", " ", "5", "0", "0">>   \* 202403 500: a space heading the day
    }

\* sys.argv[1:]: one batch id, none, or two arguments.
Argvs ==
    {<<b>> : b \in BatchIds}
    \cup {<<>>,
          <<<<"2", "0", "2", "4", "0", "3", "1", "5", "0", "0">>, <<"x">>>>}

Reps == {"int", "str"}

\* Label values a fetch may return.  SmallLabels are candidates for low
\* volume; BulkLabel carries the bulk of the rows.
SmallLabels == {0, 5, 12}
BulkLabel == 40

SmallCounts == {0, Few, LOW_VOLUME_MIN_COUNT - 1, LOW_VOLUME_MIN_COUNT}

\* The frame built from a fetch: cnt[v] rows with label v, encoded as r.
Frame(src, r, cnt) ==
    [row \in {Row(src, Lab(r, v), Lab(r, v)) : v \in {w \in DOMAIN cnt : cnt[w] > 0}}
       |-> cnt[row.orig.v]]

\* What the primary-window fetch may return.
PrimaryCounts ==
    { c \in [SmallLabels \cup {BulkLabel} -> SmallCounts \cup {Bulk}] :
        /\ c[BulkLabel] \in {0, Bulk}
        /\ \A v \in SmallLabels : c[v] \in SmallCounts }

\* What the extended-history fetch may return.
ExtLabels == {5, 12, BulkLabel}
ExtCounts ==
    { c \in [ExtLabels -> {0, Few, LOW_VOLUME_MIN_COUNT}] : c[BulkLabel] # Few }

\* Number of execute_statement calls of a get_tickets that returns n rows
\* from a stable source: one per page of PageLimit rows and the empty page.
SelectCalls(n) == CeilDiv(n, PageLimit) + 1

\* The call get_tickets(db_client, a, b) as recorded in events, with the
\* number of rows it returned (-1 when it raised).
get_tickets_call(a, b, n) ==
    [call |-> "get_tickets", start |-> a, end |-> b, rows |-> n]

\* The call put_object(key, ...) as recorded in events; ok is FALSE when it
\* raised.
put_object_call(key, ok) == [call |-> "put_object", key |-> key, ok |-> ok]

\* Mutant: the emptiness checks never fire.
empty_Never(df) == FALSE

\* DataFrame.empty
empty(df) == df = EmptyBag

Return == /\ pc' = "returned"
          /\ exc' = "none"

Raise(e) == /\ pc' = "raised"
            /\ exc' = e

\* prepare.py:49-57
Validate ==
    /\ pc = "validate"
    /\ IF Len(batch_id) # 10 \/ ~isdigit(batch_id)
       THEN Raise("ValueError") /\ UNCHANGED <<start, end>>
       ELSE LET st == get_start_datetime(batch_id, TRAINING_PERIOD)
                en == get_end_datetime(batch_id)
            IN  IF st.err # "none"
                THEN Raise(st.err) /\ UNCHANGED <<start, end>>
                ELSE IF en.err # "none"
                THEN Raise(en.err) /\ start' = st /\ UNCHANGED end
                ELSE /\ start' = st
                     /\ end' = en
                     /\ pc' = "load_secret"
                     /\ UNCHANGED exc
    /\ UNCHANGED <<argv, batch_id, rep, exit_status, events, db, last_select,
                   fetched, general_df, low_volume_labels, create_low_volume,
                   low_volume_label_id, general_train_df, general_test_df,
                   low_vol_df, low_vol_train_df, low_vol_test_df, merged,
                   split_arg, s3, source, source_kind, params_offset, pages,
                   tickets, frame, op, result>>

\* prepare.py:59
LoadSecret ==
    /\ pc = "load_secret"
    /\ events' = Append(events, [call |-> "get_secret_value"])
    /\ \/ pc' = "new_client" /\ UNCHANGED exc
       \/ Raise("ClientError")
    /\ UNCHANGED <<argv, batch_id, rep, exit_status, start, end, db,
                   last_select, fetched, general_df, low_volume_labels,
                   create_low_volume, low_volume_label_id, general_train_df,
                   general_test_df, low_vol_df, low_vol_train_df,
                   low_vol_test_df, merged, split_arg, s3, source,
                   source_kind, params_offset, pages, tickets, frame, op,
                   result>>

\* How many DatabaseResumingException answers precede a successful probe in
\* the runs of main explored here (the constructor on its own is explored in
\* full in SpecDb); the ten answers that exhaust the retries are explored.
MaxResumes == 1

\* prepare.py:60: one pass of the priming loop inside DbClient(...).
PrimeAttemptInRun ==
    /\ PrimeAttempt
    /\ db'.state = "ready" => db'.attempts <= MaxResumes

\* prepare.py:60, entering the constructor
NewDbClient ==
    /\ pc = "new_client"
    /\ db' = NewClient("DB_ARN", "DB_SECRET_ARN", "dbname")
    /\ pc' = "priming"
    /\ UNCHANGED <<argv, batch_id, rep, exc, exit_status, events, start, end,
                   last_select, fetched, general_df, low_volume_labels,
                   create_low_volume, low_volume_label_id, general_train_df,
                   general_test_df, low_vol_df, low_vol_train_df,
                   low_vol_test_df, merged, split_arg, s3, source,
                   source_kind, params_offset, pages, tickets, frame, op,
                   result>>

\* prepare.py:60, the constructor raised
ClientFailed ==
    /\ pc = "priming"
    /\ db.state = "failed"
    /\ Raise(db.error)
    /\ UNCHANGED <<argv, batch_id, rep, exit_status, events, start, end, db,
                   last_select, fetched, general_df, low_volume_labels,
                   create_low_volume, low_volume_label_id, general_train_df,
                   general_test_df, low_vol_df, low_vol_train_df,
                   low_vol_test_df, merged, split_arg, s3, source,
                   source_kind, params_offset, pages, tickets, frame, op,
                   result>>

\* prepare.py:62-65: get_tickets for [start, end], then the empty check.
FetchPrimary ==
    /\ pc = "priming"
    /\ db.state = "ready"
    /\ \/ \E c \in PrimaryCounts :
            LET df == Frame("primary", rep, c)
            IN  /\ general_df' = df
                /\ fetched' = df
                /\ events' = Append(events,
                                    get_tickets_call(start, end, Len_df(df)))
                /\ db' = [db EXCEPT !.execute_calls =
                                        @ + SelectCalls(Len_df(df))]
                /\ IF empty(df)
                   THEN Return
                   ELSE pc' = "decide" /\ UNCHANGED exc
       \/ /\ \E c \in PrimaryCounts :
                \E k \in 1..SelectCalls(Len_df(Frame("primary", rep, c))) :
                    db' = [db EXCEPT !.execute_calls = @ + k]
          /\ events' = Append(events, get_tickets_call(start, end, -1))
          /\ Raise("ClientError")
          /\ UNCHANGED <<general_df, fetched>>
    /\ UNCHANGED <<argv, batch_id, rep, exit_status, start, end, last_select,
                   low_volume_labels, create_low_volume, low_volume_label_id,
                   general_train_df, general_test_df, low_vol_df,
                   low_vol_train_df, low_vol_test_df, merged, split_arg, s3,
                   source, source_kind, params_offset, pages, tickets, frame,
                   op, result>>

\* prepare.py:69-75: how many of the labels have at least the minimum count.
LargeEnough(labels, label_counts) ==
    Cardinality({i \in DOMAIN labels :
                   CountLookup(label_counts, labels[i]) >= LOW_VOLUME_MIN_COUNT})

\* prepare.py:78
Viable(large_enough) == large_enough >= 2

\* Mutant: the fallback label is the target in both cases.
RemapTarget_AlwaysFallback(create) == LOW_VOLUME_FALLBACK_LABEL

\* prepare.py:77-83: the label the low-volume labels are rewritten to.
RemapTarget(create) == IF create THEN 0 ELSE LOW_VOLUME_FALLBACK_LABEL

\* prepare.py:67-83
Decide ==
    /\ pc = "decide"
    /\ LET label_counts == count_labels(general_df)
           lvl == find_threshold(general_df, ThresholdNum, ThresholdDen)
           create == Viable(LargeEnough(lvl, label_counts))
       IN  /\ low_volume_labels' = lvl
           /\ create_low_volume' = create
           /\ low_volume_label_id' = RemapTarget(create)
    /\ pc' = "update_label"
    /\ UNCHANGED <<argv, batch_id, rep, exc, exit_status, events, start, end,
                   db, last_select, fetched, general_df, general_train_df,
                   general_test_df, low_vol_df, low_vol_train_df,
                   low_vol_test_df, merged, split_arg, s3, source,
                   source_kind, params_offset, pages, tickets, frame, op,
                   result>>

\* prepare.py:94-96: general_df is rewritten in place.
UpdateLabels ==
    /\ pc = "update_label"
    /\ general_df' = update_label(general_df, low_volume_labels,
                                  low_volume_label_id)
    /\ pc' = "split_general"
    /\ UNCHANGED <<argv, batch_id, rep, exc, exit_status, events, start, end,
                   db, last_select, fetched, low_volume_labels,
                   create_low_volume, low_volume_label_id, general_train_df,
                   general_test_df, low_vol_df, low_vol_train_df,
                   low_vol_test_df, merged, split_arg, s3, source,
                   source_kind, params_offset, pages, tickets, frame, op,
                   result>>

\* The object store after put_object(key, df).
put_object(store, key, df) ==
    [k \in DOMAIN store \cup {key} |-> IF k = key THEN df ELSE store[k]]

\* prepare.py:98
SplitGeneral ==
    /\ pc = "split_general"
    /\ events' = Append(events, [call |-> "split"])
    /\ split_arg' = Append(split_arg, general_df)
    /\ LET parts == split(general_df, TestSplitNum, TestSplitDen)
       IN  IF parts = {}
           THEN /\ Raise("ValueError")
                /\ UNCHANGED <<general_train_df, general_test_df>>
           ELSE /\ \E p \in parts : /\ general_train_df' = p.train
                                    /\ general_test_df' = p.test
                /\ pc' = "write_general_train"
                /\ UNCHANGED exc
    /\ UNCHANGED <<argv, batch_id, rep, exit_status, start, end, db,
                   last_select, fetched, general_df, low_volume_labels,
                   create_low_volume, low_volume_label_id, low_vol_df,
                   low_vol_train_df, low_vol_test_df, merged, s3, source,
                   source_kind, params_offset, pages, tickets, frame, op,
                   result>>

\* prepare.py:107,110
WriteGeneralTrain ==
    /\ pc = "write_general_train"
    /\ \/ /\ s3' = put_object(s3, "gata-general/train", general_train_df)
          /\ events' = Append(events, put_object_call("gata-general/train", TRUE))
          /\ pc' = "write_general_test"
          /\ UNCHANGED exc
       \/ /\ events' = Append(events, put_object_call("gata-general/train", FALSE))
          /\ Raise("ClientError")
          /\ UNCHANGED s3
    /\ UNCHANGED <<argv, batch_id, rep, exit_status, start, end, db,
                   last_select, fetched, general_df, low_volume_labels,
                   create_low_volume, low_volume_label_id, general_train_df,
                   general_test_df, low_vol_df, low_vol_train_df,
                   low_vol_test_df, merged, split_arg, source, source_kind,
                   params_offset, pages, tickets, frame, op, result>>

\* prepare.py:108,111
WriteGeneralTest ==
    /\ pc = "write_general_test"
    /\ \/ /\ s3' = put_object(s3, "gata-general/test", general_test_df)
          /\ events' = Append(events, put_object_call("gata-general/test", TRUE))
          /\ pc' = "filter_low_vol"
          /\ UNCHANGED exc
       \/ /\ events' = Append(events, put_object_call("gata-general/test", FALSE))
          /\ Raise("ClientError")
          /\ UNCHANGED s3
    /\ UNCHANGED <<argv, batch_id, rep, exit_status, start, end, db,
                   last_select, fetched, general_df, low_volume_labels,
                   create_low_volume, low_volume_label_id, general_train_df,
                   general_test_df, low_vol_df, low_vol_train_df,
                   low_vol_test_df, merged, split_arg, source, source_kind,
                   params_offset, pages, tickets, frame, op, result>>

\* prepare.py:116-128: the early return, or the filter of general_df (which
\* UpdateLabels has rewritten) and the release of the primary frames.
FilterLowVol ==
    /\ pc = "filter_low_vol"
    /\ IF ~create_low_volume
       THEN /\ Return
            /\ UNCHANGED <<general_df, general_train_df, general_test_df,
                           low_vol_df>>
       ELSE /\ low_vol_df' = filter(general_df, low_volume_labels)
            /\ general_df' = EmptyBag
            /\ general_train_df' = EmptyBag
            /\ general_test_df' = EmptyBag
            /\ pc' = "fetch_low_vol"
            /\ UNCHANGED exc
    /\ UNCHANGED <<argv, batch_id, rep, exit_status, events, start, end, db,
                   last_select, fetched, low_volume_labels, create_low_volume,
                   low_volume_label_id, low_vol_train_df, low_vol_test_df,
                   merged, split_arg, s3, source, source_kind, params_offset,
                   pages, tickets, frame, op, result>>

\* prepare.py:132-143: the extended-history fetch, the concat and the empty
\* check.
FetchLowVol ==
    /\ pc = "fetch_low_vol"
    /\ LET low_vol_start == MinusDays(start, LOW_VOLUME_PERIOD - TRAINING_PERIOD)
           low_vol_end == start
       IN  IF low_vol_start.err # "none"
           THEN /\ Raise(low_vol_start.err)
                /\ UNCHANGED <<events, db, low_vol_df, merged>>
           ELSE \/ \E c \in ExtCounts :
                     LET ext == Frame("ext", rep, c)
                         all == low_vol_df (+) ext
                     IN  /\ low_vol_df' = all
                         /\ merged' = all
                         /\ events' = Append(events,
                                get_tickets_call(low_vol_start, low_vol_end,
                                                 Len_df(ext)))
                         /\ db' = [db EXCEPT !.execute_calls =
                                              @ + SelectCalls(Len_df(ext))]
                         /\ IF empty(all)
                            THEN Return
                            ELSE pc' = "drop_sparse" /\ UNCHANGED exc
                \/ /\ \E c \in ExtCounts :
                         \E k \in 1..SelectCalls(Len_df(Frame("ext", rep, c))) :
                             db' = [db EXCEPT !.execute_calls = @ + k]
                   /\ events' = Append(events,
                          get_tickets_call(low_vol_start, low_vol_end, -1))
                   /\ Raise("ClientError")
                      /\ UNCHANGED <<low_vol_df, merged>>
    /\ UNCHANGED <<argv, batch_id, rep, exit_status, start, end, last_select,
                   fetched, general_df, low_volume_labels, create_low_volume,
                   low_volume_label_id, general_train_df, general_test_df,
                   low_vol_train_df, low_vol_test_df, split_arg, s3, source,
                   source_kind, params_offset, pages, tickets, frame, op,
                   result>>

\* The mask of prepare.py:149.
KeepRow(r) == r.label.v >= SparseFloor

\* prepare.py:148-150: low_vol_df[low_vol_df["label"] >= 10].  Comparing a
\* str label with 10 raises TypeError.
DropSparse ==
    /\ pc = "drop_sparse"
    /\ IF \E l \in LabelsOf(low_vol_df) : l.t = "str"
       THEN Raise("TypeError") /\ UNCHANGED low_vol_df
       ELSE /\ low_vol_df' = Select_df(low_vol_df,
                                       {r \in BagToSet(low_vol_df) : KeepRow(r)})
            /\ pc' = "split_low_vol"
            /\ UNCHANGED exc
    /\ UNCHANGED <<argv, batch_id, rep, exit_status, events, start, end, db,
                   last_select, fetched, general_df, low_volume_labels,
                   create_low_volume, low_volume_label_id, general_train_df,
                   general_test_df, low_vol_train_df, low_vol_test_df, merged,
                   split_arg, s3, source, source_kind, params_offset, pages,
                   tickets, frame, op, result>>

\* prepare.py:152
SplitLowVol ==
    /\ pc = "split_low_vol"
    /\ events' = Append(events, [call |-> "split"])
    /\ split_arg' = Append(split_arg, low_vol_df)
    /\ LET parts == split(low_vol_df, TestSplitNum, TestSplitDen)
       IN  IF parts = {}
           THEN /\ Raise("ValueError")
                /\ UNCHANGED <<low_vol_train_df, low_vol_test_df>>
           ELSE /\ \E p \in parts : /\ low_vol_train_df' = p.train
                                    /\ low_vol_test_df' = p.test
                /\ pc' = "write_low_vol_train"
                /\ UNCHANGED exc
    /\ UNCHANGED <<argv, batch_id, rep, exit_status, start, end, db,
                   last_select, fetched, general_df, low_volume_labels,
                   create_low_volume, low_volume_label_id, general_train_df,
                   general_test_df, low_vol_df, merged, s3, source,
                   source_kind, params_offset, pages, tickets, frame, op,
                   result>>

\* prepare.py:161,164
WriteLowVolTrain ==
    /\ pc = "write_low_vol_train"
    /\ \/ /\ s3' = put_object(s3, "gata-low-vol/train", low_vol_train_df)
          /\ events' = Append(events, put_object_call("gata-low-vol/train", TRUE))
          /\ pc' = "write_low_vol_test"
          /\ UNCHANGED exc
       \/ /\ events' = Append(events, put_object_call("gata-low-vol/train", FALSE))
          /\ Raise("ClientError")
          /\ UNCHANGED s3
    /\ UNCHANGED <<argv, batch_id, rep, exit_status, start, end, db,
                   last_select, fetched, general_df, low_volume_labels,
                   create_low_volume, low_volume_label_id, general_train_df,
                   general_test_df, low_vol_df, low_vol_train_df,
                   low_vol_test_df, merged, split_arg, source, source_kind,
                   params_offset, pages, tickets, frame, op, result>>

\* prepare.py:162,165-170: the last write, after which main returns.
WriteLowVolTest ==
    /\ pc = "write_low_vol_test"
    /\ \/ /\ s3' = put_object(s3, "gata-low-vol/test", low_vol_test_df)
          /\ events' = Append(events, put_object_call("gata-low-vol/test", TRUE))
          /\ Return
       \/ /\ events' = Append(events, put_object_call("gata-low-vol/test", FALSE))
          /\ Raise("ClientError")
          /\ UNCHANGED s3
    /\ UNCHANGED <<argv, batch_id, rep, exit_status, start, end, db,
                   last_select, fetched, general_df, low_volume_labels,
                   create_low_volume, low_volume_label_id, general_train_df,
                   general_test_df, low_vol_df, low_vol_train_df,
                   low_vol_test_df, merged, split_arg, source, source_kind,
                   params_offset, pages, tickets, frame, op, result>>

\* Mutant: the except branch forgets sys.exit(1).
ExitStatus_AlwaysZero(e) == 0

\* The exit status chosen by the __main__ block (prepare.py:178-183).
ExitStatus(e) == IF e = "none" THEN 0 ELSE 1

\* prepare.py:178-183
Exit ==
    /\ pc \in {"returned", "raised"}
    /\ exit_status' = ExitStatus(exc)
    /\ pc' = "exited"
    /\ UNCHANGED <<argv, batch_id, rep, exc, events, start, end, db,
                   last_select, fetched, general_df, low_volume_labels,
                   create_low_volume, low_volume_label_id, general_train_df,
                   general_test_df, low_vol_df, low_vol_train_df,
                   low_vol_test_df, merged, split_arg, s3, source,
                   source_kind, params_offset, pages, tickets, frame, op,
                   result>>

\* prepare.py:173-179: without exactly one argument the usage is printed
\* and the process exits with status 1; otherwise main(sys.argv[1]) is called.
Start ==
    /\ pc = "start"
    /\ IF Len(argv) # 1
       THEN /\ exit_status' = 1
            /\ pc' = "exited"
            /\ UNCHANGED batch_id
       ELSE /\ batch_id' = argv[1]
            /\ pc' = "validate"
            /\ UNCHANGED exit_status
    /\ UNCHANGED <<argv, rep, exc, events, start, end, db, last_select,
                   fetched, general_df, low_volume_labels, create_low_volume,
                   low_volume_label_id, general_train_df, general_test_df,
                   low_vol_df, low_vol_train_df, low_vol_test_df, merged,
                   split_arg, s3, source, source_kind, params_offset, pages,
                   tickets, frame, op, result>>

Init ==
    /\ InitCommon
    /\ NoTickets
    /\ NoFrame
    /\ argv \in Argvs
    /\ batch_id = <<>>
    /\ rep \in Reps
    /\ pc = "start"

Next ==
    \/ Start
    \/ Validate
    \/ LoadSecret
    \/ NewDbClient
    \/ PrimeAttemptInRun
    \/ ClientFailed
    \/ FetchPrimary
    \/ Decide
    \/ UpdateLabels
    \/ SplitGeneral
    \/ WriteGeneralTrain
    \/ WriteGeneralTest
    \/ FilterLowVol
    \/ FetchLowVol
    \/ DropSparse
    \/ SplitLowVol
    \/ WriteLowVolTrain
    \/ WriteLowVolTest
    \/ Exit

Spec == Init /\ [][Next]_vars

(***************************************************************************)
(* Vocabulary of the properties                                            *)
(***************************************************************************)
PrimaryKeys == {"gata-general/train", "gata-general/test"}
SecondaryKeys == {"gata-low-vol/train", "gata-low-vol/test"}

Calls(name) == {i \in DOMAIN events : events[i].call = name}

PutOk(key) ==
    {i \in Calls("put_object") : events[i].key = key /\ events[i].ok}

\* Index in events of the primary-window fetch (the first get_tickets).
PrimaryFetchIdx ==
    CHOOSE i \in Calls("get_tickets") : \A j \in Calls("get_tickets") : i <= j

\* Indices of the extended-history fetch.
ExtFetches ==
    IF Calls("get_tickets") = {} THEN {}
    ELSE Calls("get_tickets") \ {PrimaryFetchIdx}

\* The labels of df whose share is strictly below the threshold.
LowVolumeSet(df) ==
    {l \in LabelsOf(df) :
        CountOf(df, l) * ThresholdDen < ThresholdNum * Len_df(df)}

\* The low-volume labels of df with at least the minimum count.
Qualifying(df) ==
    {l \in LowVolumeSet(df) : CountOf(df, l) >= LOW_VOLUME_MIN_COUNT}

\* The viable case, read off the rows as fetched (before any remap).
ViableCase == Cardinality(Qualifying(fetched)) >= 2

PrimaryEmitted == PrimaryKeys \subseteq DOMAIN s3
Emitted == s3["gata-general/train"] (+) s3["gata-general/test"]

\* The secondary phase (prepare.py:120 onwards) has been reached.
SecondaryReached ==
    /\ create_low_volume
    /\ PutOk("gata-general/test") # {}
    /\ pc # "filter_low_vol"

\* main(sys.argv[1]) has been called.
MainCalled == Len(argv) = 1 /\ pc # "start"

\* A string of exactly 10 decimal digits (the ASCII digits or any other
\* decimal digit of Unicode) whose values are a calendar hour YYYYMMDDHH.
ValidBatchId(s) ==
    /\ Len(s) = 10
    /\ \A i \in 1..Len(s) : IsDecimalChar(s[i])
    /\ LET y == Number(SubSeq(s, 1, 4))
           m == Number(SubSeq(s, 5, 6))
           d == Number(SubSeq(s, 7, 8))
           h == Number(SubSeq(s, 9, 10))
       IN  /\ y >= 1
           /\ m \in 1..12
           /\ d \in 1..DaysInMonth(y, m)
           /\ h \in 0..23

(***************************************************************************)
(* C1 (as claimed; refuted by the code).  In the viable case the set       *)
(* merged with the extended-history rows holds every primary-window row    *)
(* whose original label is low-volume, each with its original label, and   *)
(* no primary row in it carries a rewritten label.                         *)
(***************************************************************************)
C1_SecondaryKeepsOriginalLabels ==
    (pc = "drop_sparse" /\ ViableCase) =>
        /\ \A r \in BagToSet(fetched) :
              r.label \in LowVolumeSet(fetched)
                  => CopiesIn(r, merged) = fetched[r]
        /\ \A q \in BagToSet(merged) :
              q.src = "primary" => q.label = q.orig

(***************************************************************************)
(* C2 (as claimed; refuted by the code).  When the secondary set is handed *)
(* to split, every label with fewer than LOW_VOLUME_MIN_COUNT rows in the  *)
(* merged set has lost all its rows and every other label has kept all of  *)
(* its rows.                                                               *)
(***************************************************************************)
C2_SparseLabelsDroppedByCount ==
    pc = "split_low_vol" =>
        \A l \in LabelsOf(merged) :
            IF CountOf(merged, l) < LOW_VOLUME_MIN_COUNT
            THEN CountOf(low_vol_df, l) = 0
            ELSE \A r \in BagToSet(merged) :
                    r.label = l => CopiesIn(r, low_vol_df) = merged[r]

(***************************************************************************)
(* C3 (as claimed; refuted by the code).  A secondary dataset is built if  *)
(* and only if at least 2 low-volume labels of the primary window have     *)
(* count >= LOW_VOLUME_MIN_COUNT (counted as fetched): the extended-       *)
(* history fetch and the secondary objects occur only in the viable case,  *)
(* a viable run that ends with status 0 has written both secondary         *)
(* objects, and a run with fewer than 2 qualifying labels ends with status *)
(* 0 and exactly the two primary objects.  The "if" is held only against   *)
(* runs that end with status 0, and the last part only against runs whose  *)
(* primary window is not empty.                                            *)
(***************************************************************************)
C3_SecondaryIffViable ==
    /\ (ExtFetches # {} \/ DOMAIN s3 \cap SecondaryKeys # {}) => ViableCase
    /\ (pc = "exited" /\ exit_status = 0 /\ ViableCase) =>
          SecondaryKeys \subseteq DOMAIN s3
    /\ (pc = "exited" /\ ~empty(fetched) /\ ~ViableCase) =>
          /\ exit_status = 0
          /\ DOMAIN s3 = PrimaryKeys

(***************************************************************************)
(* C4 (as claimed; refuted).  In the emitted primary dataset every row     *)
(* whose original label is low-volume carries LOW_VOLUME_FALLBACK_LABEL,   *)
(* viable case or not, and every other row has its original label value.   *)
(***************************************************************************)
C4_LowVolumeRowsCarryFallback ==
    PrimaryEmitted =>
        \A r \in BagToSet(Emitted) :
            IF r.orig \in LowVolumeSet(fetched)
            THEN r.label = IntL(LOW_VOLUME_FALLBACK_LABEL)
            ELSE r.label.v = r.orig.v

(***************************************************************************)
(* C4 (amended).  The emitted primary dataset holds every fetched row; a   *)
(* row whose original label is low-volume carries the int                  *)
(* LOW_VOLUME_FALLBACK_LABEL when the secondary dataset is not viable and  *)
(* the int 0 when it is viable; every other row carries the int value of   *)
(* its original label.                                                     *)
(***************************************************************************)
C4_RemapTargetByCase ==
    PrimaryEmitted =>
        LET emitted == Emitted
            rows == BagToSet(emitted)
            low == LowVolumeSet(fetched)
            target == IntL(IF ViableCase THEN 0
                           ELSE LOW_VOLUME_FALLBACK_LABEL)
        IN  /\ \A f \in BagToSet(fetched) :
                  SumOver({r \in rows : r.orig = f.orig}, emitted)
                      = fetched[f]
            /\ \A r \in rows :
                  r.label = IF r.orig \in low THEN target
                            ELSE IntL(r.orig.v)

C4_Witness ==
    /\ PrimaryEmitted
    /\ ViableCase
    /\ \E r \in BagToSet(Emitted) :
          /\ r.orig \in LowVolumeSet(fetched)
          /\ r.orig.v # 0
          /\ r.label = IntL(0)

(***************************************************************************)
(* C5 (as claimed; refuted by the code).  split is never handed an empty   *)
(* frame, and a viable run whose low-volume set is empty after the         *)
(* extended-history fetch and the drop of sparse labels ends with status   *)
(* 0 and no secondary object.                                              *)
(***************************************************************************)
C5_EmptyLowVolumeEndsQuietly ==
    /\ \A i \in DOMAIN split_arg : ~empty(split_arg[i])
    /\ (/\ pc = "exited"
        /\ ViableCase
        /\ \E i \in ExtFetches : events[i].rows >= 0
        /\ empty(low_vol_df)) =>
          /\ exit_status = 0
          /\ exc = "none"
          /\ DOMAIN s3 \cap SecondaryKeys = {}

(***************************************************************************)
(* C6.  When main is called with a batch id that is not 10 decimal digits  *)
(* forming a valid YYYYMMDDHH, it raises ValueError and no secret-store,   *)
(* database or object-store call is ever made.  A decimal digit is what    *)
(* Python calls one: a character of Unicode category Nd, ASCII or not.     *)
(***************************************************************************)
C6_MalformedBatchIdRejected ==
    (MainCalled /\ ~ValidBatchId(batch_id)) =>
        /\ events = <<>>
        /\ s3 = <<>>
        /\ db = NoClient
        /\ pc \in {"validate", "raised", "exited"}
        /\ pc # "validate" => exc = "ValueError"
        /\ pc = "exited" => exit_status = 1

C6_Witness ==
    /\ pc = "exited"
    /\ Len(batch_id) = 10
    /\ isdigit(batch_id)
    /\ ~ValidBatchId(batch_id)
    /\ exc = "ValueError"

(***************************************************************************)
(* C7.  When the primary-window fetch returns zero rows, main returns      *)
(* without an exception (exit status 0), nothing is written, no split is   *)
(* attempted and no extended-history fetch is made.                        *)
(***************************************************************************)
C7_EmptyPrimaryEndsQuietly ==
    (Calls("get_tickets") # {} /\ events[PrimaryFetchIdx].rows = 0) =>
        /\ pc \in {"returned", "exited"}
        /\ exc = "none"
        /\ pc = "exited" => exit_status = 0
        /\ s3 = <<>>
        /\ Calls("put_object") = {}
        /\ Calls("split") = {}
        /\ split_arg = <<>>
        /\ ExtFetches = {}

C7_Witness ==
    /\ pc = "exited"
    /\ Calls("get_tickets") # {}
    /\ events[PrimaryFetchIdx].rows = 0
    /\ exit_status = 0

(***************************************************************************)
(* C8.  Once the secondary phase is reached both primary objects are in    *)
(* the store, written train then test and before any extended-history      *)
(* fetch; they stay there whatever the secondary phase does, and a         *)
(* failure in it ends the process with a non-zero status.  The exit status *)
(* is 0 exactly when main was called and returned without an exception.    *)
(***************************************************************************)
C8_PrimaryDurableBeforeSecondary ==
    /\ SecondaryReached =>
          /\ PrimaryEmitted
          /\ Len_df(Emitted) = Len_df(fetched)
          /\ \E i \in PutOk("gata-general/train"),
                j \in PutOk("gata-general/test") :
                /\ i < j
                /\ \A g \in ExtFetches : j < g
          /\ (pc = "exited" /\ exc # "none") => exit_status # 0
    /\ pc = "exited" => (exit_status = 0 <=> (MainCalled /\ exc = "none"))
    /\ pc # "exited" => exit_status = -1

C8_Witness ==
    /\ pc = "exited"
    /\ SecondaryReached
    /\ exc = "ValueError"
    /\ exit_status = 1
    /\ PrimaryEmitted

(***************************************************************************)
(* C9.  While a DbClient is constructed the probe is issued once per       *)
(* attempt: k resuming failures followed by a success make k + 1 calls     *)
(* with k < 10, any other exception ends the constructor without a retry,  *)
(* and ConnectionError is raised after exactly 10 resuming failures and    *)
(* 10 calls; never more than 10 calls are made.                            *)
(***************************************************************************)
C9_BoundedPriming ==
    last_select.n = 0 =>
        /\ db.execute_calls <= MaxPrimeAttempts
        /\ db.state = "priming" =>
              db.execute_calls = db.attempts /\ ~db.connected
        /\ db.state = "ready" =>
              /\ db.connected
              /\ db.attempts < MaxPrimeAttempts
              /\ db.execute_calls = db.attempts + 1
        /\ db.state = "failed" =>
              \/ /\ db.error = "ConnectionError"
                 /\ db.attempts = MaxPrimeAttempts
                 /\ db.execute_calls = MaxPrimeAttempts
                 /\ ~db.connected
              \/ /\ db.error = "ClientError"
                 /\ db.execute_calls = db.attempts + 1

C9_Witness ==
    /\ db.state = "failed"
    /\ db.error = "ConnectionError"
    /\ db.execute_calls = MaxPrimeAttempts

(***************************************************************************)
(* C10.  A call of DbClient.select reaches execute_statement only if the   *)
(* query starts with SELECT; for any other query it raises ValueError,     *)
(* makes no call and leaves the client as it was.                          *)
(***************************************************************************)
StartsWithSELECT(q) ==
    /\ Len(q) >= 6
    /\ q[1] = "S" /\ q[2] = "E" /\ q[3] = "L"
    /\ q[4] = "E" /\ q[5] = "C" /\ q[6] = "T"

C10_OnlyReadsDispatched ==
    [][last_select'.n # last_select.n =>
          LET q == last_select'.query
          IN  /\ db'.execute_calls # db.execute_calls => StartsWithSELECT(q)
              /\ ~StartsWithSELECT(q) =>
                    /\ last_select'.result = "ValueError"
                    /\ db' = db
                    /\ events' = events]_vars

C10_Witness ==
    /\ last_select.n > 0
    /\ last_select.result = "ValueError"
    /\ last_select.query # <<>>
    /\ last_select.query[1] = "S"
    /\ db.execute_calls = db.attempts + 1

(***************************************************************************)
(* src/tickets.py: get_tickets against a record source                     *)
(***************************************************************************)
\* Bound of the model: the most rows the record source holds.
MaxRows == 120

\* The statement built by _load_tickets, up to the column list.
TicketQuery == SELECT \o <<" ", "i", "d">>

\* How a record source may treat a page request:
\*   "stable"  the rows do not change and LIMIT/OFFSET are honoured;
\*   "once"    every row on the first request and none afterwards, whatever
\*             the offset and limit (the MockDbClient of test_tickets.py);
\*   "shifted" rows are closed while the fetch runs: each request sees one
\*             more row in front of those it saw before.
SourceKinds == {"stable", "once", "shifted"}

Min(a, b) == IF a < b THEN a ELSE b

\* LIMIT limit OFFSET off over the ordered rows.
Page(rows, off, limit) == SubSeq(rows, off + 1, Min(off + limit, Len(rows)))

\* The rows the source hands back on request number calls + 1.
SourceRows(kind, rows, off, limit, calls) ==
    CASE kind = "stable"  -> Page(rows, off, limit)
      [] kind = "once"    -> IF calls = 0 THEN rows ELSE <<>>
      [] kind = "shifted" ->
           Page([i \in 1..Min(calls, Len(rows)) |-> 0] \o rows, off, limit)

\* Mutant: the offset moves on by one row instead of one page.
NextOffset_OneRow(off, limit) == off + 1

\* params[0]["value"]["longValue"] += limit
NextOffset(off, limit) == off + limit

\* One pass through the while loop of _load_tickets as get_tickets drives
\* it: the select call, then either the break (get_tickets returns its
\* list), or the offset update and the append of every row of the page.
\* An exception of select leaves get_tickets at once.
LoadPage ==
    /\ pc = "load_tickets"
    /\ \E ok \in BOOLEAN :
         LET rows == SourceRows(source_kind, source, params_offset,
                                PageLimit, Len(pages))
             r    == select(db, TicketQuery, [ok |-> ok, rows |-> rows])
         IN  /\ db' = r.client
             /\ events' = Append(events, [call |-> "execute_statement"])
             /\ IF r.result # "ok"
                THEN /\ pc' = "raised"
                     /\ exc' = r.result
                     /\ UNCHANGED <<pages, params_offset, tickets>>
                ELSE /\ pages' = Append(pages, r.rows)
                     /\ exc' = exc
                     /\ IF r.rows = <<>>
                        THEN /\ pc' = "returned"
                             /\ UNCHANGED <<params_offset, tickets>>
                        ELSE /\ pc' = pc
                             /\ params_offset' =
                                    NextOffset(params_offset, PageLimit)
                             /\ tickets' = tickets \o r.rows
    /\ UNCHANGED <<argv, batch_id, rep, exit_status, start, end, last_select,
                   fetched, general_df, low_volume_labels, create_low_volume,
                   low_volume_label_id, general_train_df, general_test_df,
                   low_vol_df, low_vol_train_df, low_vol_test_df, merged,
                   split_arg, s3, source, source_kind, frame, op, result>>

\* A caller with a primed client calls get_tickets: tickets = [], offset 0.
InitTickets ==
    /\ argv = <<>>
    /\ batch_id = <<>>
    /\ rep = "int"
    /\ pc = "load_tickets"
    /\ exc = "none"
    /\ exit_status = -1
    /\ events = <<>>
    /\ start = NoTime
    /\ end = NoTime
    /\ db = [NewClient("cluster", "secret", "dbname") EXCEPT
                !.state = "ready", !.connected = TRUE]
    /\ last_select = NoSelect
    /\ fetched = EmptyBag
    /\ general_df = EmptyBag
    /\ low_volume_labels = <<>>
    /\ create_low_volume = FALSE
    /\ low_volume_label_id = 0
    /\ general_train_df = EmptyBag
    /\ general_test_df = EmptyBag
    /\ low_vol_df = EmptyBag
    /\ low_vol_train_df = EmptyBag
    /\ low_vol_test_df = EmptyBag
    /\ merged = EmptyBag
    /\ split_arg = <<>>
    /\ s3 = <<>>
    /\ source \in {[i \in 1..n |-> i] : n \in 0..MaxRows}
    /\ source_kind \in SourceKinds
    /\ params_offset = 0
    /\ pages = <<>>
    /\ tickets = <<>>
    /\ NoFrame

NextTickets == LoadPage

SpecTickets == InitTickets /\ [][NextTickets]_vars

RECURSIVE Flatten(_)
Flatten(ps) == IF ps = <<>> THEN <<>> ELSE Head(ps) \o Flatten(Tail(ps))

NonEmptyPages == {i \in DOMAIN pages : pages[i] # <<>>}

(***************************************************************************)
(* C11.  get_tickets asks for pages of 50 rows from offset 0, the offset   *)
(* growing by 50 after every non-empty page; it stops at the first empty   *)
(* page and returns the non-empty pages concatenated in the order they     *)
(* came.  Against a stable source of N rows that honours offset and limit  *)
(* it returns the N rows once each, in source order, after ceil(N/50) + 1  *)
(* select calls.                                                           *)
(***************************************************************************)
C11_PagesUntilFirstEmptyPage ==
    /\ params_offset = 50 * Cardinality(NonEmptyPages)
    /\ tickets = Flatten(pages)
    /\ \A i \in DOMAIN pages : i < Len(pages) => pages[i] # <<>>
    /\ pc = "returned" <=> (pages # <<>> /\ pages[Len(pages)] = <<>>)
    /\ pc # "raised" => db.execute_calls = Len(pages)
    /\ (source_kind = "stable" =>
          \A i \in DOMAIN pages :
             pages[i] = SubSeq(source, 50 * (i - 1) + 1,
                               Min(50 * i, Len(source))))
    /\ (pc = "returned" /\ source_kind = "stable" =>
          /\ tickets = source
          /\ db.execute_calls = (Len(source) + 49) \div 50 + 1)

C11_Witness ==
    /\ pc = "returned"
    /\ source_kind = "stable"
    /\ Len(source) = 101
    /\ Len(tickets) = 101
    /\ db.execute_calls = 4
    /\ params_offset = 150

(***************************************************************************)
(* The helpers of src/dataset.py and src/utils.py called on a frame a      *)
(* caller holds.  Here a DataFrame is the sequence of its rows in frame    *)
(* order; the src field of a row is its index label.  The bag of those     *)
(* rows is the frame the definitions above work on.                        *)
(***************************************************************************)
\* Bounds of the model: the longest frame built from every combination of
\* labels, and the number of helper calls a caller makes in a row (one on
\* the 18-row fixture).
MaxFrameLen == 3
MaxCalls == 2

\* pd.DataFrame({"label": ls}): rows indexed 1..n in the order given.
DataFrame(ls) == [i \in DOMAIN ls |-> Row(i, ls[i], ls[i])]

\* The rows of a frame without their order.
AsBag(s) ==
    [r \in Range(s) |-> Cardinality({i \in DOMAIN s : s[i] = r})]

\* df[df["label"].isin(labels)] keeps the rows in order with their index.
filter_rows(s, labels) == SelectSeq(s, LAMBDA r : r.label \in Range(labels))

\* df["label"] = df["label"].apply(substitute_label): row by row, in place.
apply_substitute_label(s, old_labels, new_label) ==
    [i \in DOMAIN s |->
        [s[i] EXCEPT !.label = substitute_label(@, old_labels, new_label)]]

\* The label values the frames are built from: 10 sorts before 2 as a
\* string and after it as an int.
FrameValues == {0, 2, 10}

RECURSIVE SeqsUpTo(_, _)
SeqsUpTo(S, n) ==
    IF n = 0 THEN { <<>> }
    ELSE LET shorter == SeqsUpTo(S, n - 1)
         IN  shorter \cup { Append(q, x) : q \in shorter, x \in S }

\* The frame of the fixture of test_dataset.py: 2, 2, 2, 6 and 6 rows.
Fixture(r) ==
    <<Lab(r, 0), Lab(r, 0), Lab(r, 1), Lab(r, 1), Lab(r, 2), Lab(r, 2)>>
    \o [i \in 1..6 |-> Lab(r, 3)] \o [i \in 1..6 |-> Lab(r, 4)]

\* Frames a caller may hold: labels of one type, as the record source
\* delivers them.
Frames ==
    { DataFrame([i \in DOMAIN q |-> Lab(r, q[i])]) :
        q \in SeqsUpTo(FrameValues, MaxFrameLen), r \in Reps }
    \cup { DataFrame(Fixture("str")) }
    \cup { DataFrame(<<Lab(r, 2), Lab(r, 10), Lab(r, 2), Lab(r, 10),
                       Lab(r, 2), Lab(r, 10), Lab(r, 2)>>) : r \in Reps }

\* Label lists a caller may pass.
LabelLists == { <<>>, <<StrL(0), StrL(2)>>, <<IntL(0), IntL(2)>> }

NewLabels == {0, 99}

\* Thresholds and test sizes a caller may pass, as [num, den].
Thresholds ==
    { [num |-> 3, den |-> 10], [num |-> 1, den |-> 3], [num |-> 1, den |-> 2] }

TestSizes ==
    { [num |-> TestSplitNum, den |-> TestSplitDen], [num |-> 33, den |-> 100] }

\* The frames longer than MaxFrameLen are followed for one call.
CallsLeft ==
    op.n < (IF Len(frame) > MaxFrameLen + 4 THEN 1 ELSE MaxCalls)

Called(name, labels, new_label, num, den) ==
    [n |-> op.n + 1, name |-> name, labels |-> labels,
     new_label |-> new_label, num |-> num, den |-> den]

\* utils.count_labels(frame): a new table; the frame is only read.
CallCountLabels ==
    /\ pc = "helpers"
    /\ CallsLeft
    /\ op' = Called("count_labels", <<>>, 0, 0, 1)
    /\ result' = [NoResult EXCEPT !.kind = "table",
                                  !.list = count_labels(AsBag(frame))]
    /\ UNCHANGED <<argv, batch_id, rep, pc, exc, exit_status, events, start,
                   end, db, last_select, fetched, general_df,
                   low_volume_labels, create_low_volume, low_volume_label_id,
                   general_train_df, general_test_df, low_vol_df,
                   low_vol_train_df, low_vol_test_df, merged, split_arg, s3,
                   source, source_kind, params_offset, pages, tickets, frame>>

\* dataset.find_threshold(frame, threshold): a new list; the frame is only
\* read.
CallFindThreshold ==
    /\ pc = "helpers"
    /\ CallsLeft
    /\ \E t \in Thresholds :
         /\ op' = Called("find_threshold", <<>>, 0, t.num, t.den)
         /\ result' = [NoResult EXCEPT
                          !.kind = "list",
                          !.list = find_threshold(AsBag(frame), t.num, t.den)]
    /\ UNCHANGED <<argv, batch_id, rep, pc, exc, exit_status, events, start,
                   end, db, last_select, fetched, general_df,
                   low_volume_labels, create_low_volume, low_volume_label_id,
                   general_train_df, general_test_df, low_vol_df,
                   low_vol_train_df, low_vol_test_df, merged, split_arg, s3,
                   source, source_kind, params_offset, pages, tickets, frame>>

\* dataset.split(frame, test_size): two new frames, or ValueError; the
\* frame is only read.
CallSplit ==
    /\ pc = "helpers"
    /\ CallsLeft
    /\ \E f \in TestSizes :
         /\ op' = Called("split", <<>>, 0, f.num, f.den)
         /\ IF SplitRaises(AsBag(frame), f.num, f.den)
            THEN result' = [NoResult EXCEPT !.kind = "ValueError"]
            ELSE \E parts \in split(AsBag(frame), f.num, f.den) :
                    result' = [NoResult EXCEPT !.kind = "frames",
                                               !.train = parts.train,
                                               !.test = parts.test]
    /\ UNCHANGED <<argv, batch_id, rep, pc, exc, exit_status, events, start,
                   end, db, last_select, fetched, general_df,
                   low_volume_labels, create_low_volume, low_volume_label_id,
                   general_train_df, general_test_df, low_vol_df,
                   low_vol_train_df, low_vol_test_df, merged, split_arg, s3,
                   source, source_kind, params_offset, pages, tickets, frame>>

\* dataset.filter(frame, labels): a new frame; the frame is only read.
CallFilter ==
    /\ pc = "helpers"
    /\ CallsLeft
    /\ \E labels \in LabelLists :
         /\ op' = Called("filter", labels, 0, 0, 1)
         /\ result' = [NoResult EXCEPT !.kind = "frame",
                                       !.frame = filter_rows(frame, labels)]
    /\ UNCHANGED <<argv, batch_id, rep, pc, exc, exit_status, events, start,
                   end, db, last_select, fetched, general_df,
                   low_volume_labels, create_low_volume, low_volume_label_id,
                   general_train_df, general_test_df, low_vol_df,
                   low_vol_train_df, low_vol_test_df, merged, split_arg, s3,
                   source, source_kind, params_offset, pages, tickets, frame>>

\* Mutant: update_label works on a copy of the frame it is given.
CallUpdateLabel_OnCopy ==
    /\ pc = "helpers"
    /\ CallsLeft
    /\ \E labels \in LabelLists, v \in NewLabels :
         /\ op' = Called("update_label", labels, v, 0, 1)
         /\ result' = [NoResult EXCEPT
                          !.kind = "frame",
                          !.frame = apply_substitute_label(frame, labels, v)]
    /\ UNCHANGED <<argv, batch_id, rep, pc, exc, exit_status, events, start,
                   end, db, last_select, fetched, general_df,
                   low_volume_labels, create_low_volume, low_volume_label_id,
                   general_train_df, general_test_df, low_vol_df,
                   low_vol_train_df, low_vol_test_df, merged, split_arg, s3,
                   source, source_kind, params_offset, pages, tickets, frame>>

\* dataset.update_label(frame, old_labels, new_label): assigns the label
\* column of the frame it is given and returns that frame.
CallUpdateLabel ==
    /\ pc = "helpers"
    /\ CallsLeft
    /\ \E labels \in LabelLists, v \in NewLabels :
         /\ op' = Called("update_label", labels, v, 0, 1)
         /\ frame' = apply_substitute_label(frame, labels, v)
         /\ result' = [NoResult EXCEPT !.kind = "frame",
                                       !.frame = frame',
                                       !.same_object = TRUE]
    /\ UNCHANGED <<argv, batch_id, rep, pc, exc, exit_status, events, start,
                   end, db, last_select, fetched, general_df,
                   low_volume_labels, create_low_volume, low_volume_label_id,
                   general_train_df, general_test_df, low_vol_df,
                   low_vol_train_df, low_vol_test_df, merged, split_arg, s3,
                   source, source_kind, params_offset, pages, tickets>>

InitFrame ==
    /\ InitCommon
    /\ NoTickets
    /\ argv = <<>>
    /\ batch_id = <<>>
    /\ rep = "int"
    /\ pc = "helpers"
    /\ frame \in Frames
    /\ op = NoOp
    /\ result = NoResult

NextFrame ==
    \/ CallCountLabels
    \/ CallFindThreshold
    \/ CallSplit
    \/ CallFilter
    \/ CallUpdateLabel

SpecFrame == InitFrame /\ [][NextFrame]_vars

\* The order-free helpers agree with the ordered ones.
FrameModelsAgree ==
    op.name = "filter" =>
        AsBag(result.frame) = filter(AsBag(frame), op.labels)

\* Vocabulary of the claims about the helpers.
FrameLabels == {frame[i].label : i \in DOMAIN frame}
RowsWith(l) == Cardinality({i \in DOMAIN frame : frame[i].label = l})
ListLabels == {result.list[i] : i \in DOMAIN result.list}

(***************************************************************************)
(* C12.  find_threshold(R, t) returns exactly the labels of R whose share  *)
(* count(label)/len(R) is strictly below t (a share equal to t or above    *)
(* it is never returned), in ascending order of the labels' own type       *)
(* (numbers for ints, character order for strings) and without             *)
(* duplicates; an empty R gives the empty list.                            *)
(***************************************************************************)
C12_ThresholdIsStrict ==
    op.name = "find_threshold" =>
        /\ \A l \in FrameLabels :
              l \in ListLabels <=> RowsWith(l) * op.den < op.num * Len(frame)
        /\ ListLabels \subseteq FrameLabels
        /\ \A i, j \in DOMAIN result.list :
              i < j => LabelLess(result.list[i], result.list[j])
        /\ (frame = <<>> => result.list = <<>>)

C12_Witness ==
    /\ op.name = "find_threshold"
    /\ frame = DataFrame(Fixture("str"))
    /\ op.num = 1 /\ op.den = 3
    /\ result.list = <<StrL(0), StrL(1), StrL(2)>>

(***************************************************************************)
(* C13.  count_labels(R) has one row per distinct label of R, holding the  *)
(* number of records with that label; the rows are in ascending label      *)
(* order, not in order of frequency; the counts add up to len(R); an empty *)
(* R gives an empty table.                                                 *)
(***************************************************************************)
RECURSIVE SumCounts(_)
SumCounts(table) ==
    IF table = <<>> THEN 0 ELSE Head(table).Count + SumCounts(Tail(table))

C13_OneRowPerLabelInLabelOrder ==
    op.name = "count_labels" =>
        /\ result.kind = "table"
        /\ {result.list[i].Label : i \in DOMAIN result.list} = FrameLabels
        /\ Len(result.list) = Cardinality(FrameLabels)
        /\ \A i \in DOMAIN result.list :
              result.list[i].Count = RowsWith(result.list[i].Label)
        /\ \A i, j \in DOMAIN result.list :
              i < j => LabelLess(result.list[i].Label, result.list[j].Label)
        /\ SumCounts(result.list) = Len(frame)
        /\ (frame = <<>> => result.list = <<>>)

C13_Witness ==
    /\ op.name = "count_labels"
    /\ Len(frame) = 3
    /\ result.list = << [Label |-> IntL(0), Count |-> 1],
                        [Label |-> IntL(2), Count |-> 2] >>

(***************************************************************************)
(* C14.  update_label(R, L, v) leaves the number and the order of the      *)
(* records as they were; a record whose label was a member of L gets the   *)
(* label v and every other record gets the integer value of the label it   *)
(* had.                                                                    *)
(***************************************************************************)
C14_RelabelsMembersConvertsOthers ==
    [][op'.n # op.n /\ op'.name = "update_label" =>
          /\ Len(frame') = Len(frame)
          /\ \A i \in DOMAIN frame :
                /\ frame'[i].src = frame[i].src
                /\ frame'[i].orig = frame[i].orig
                /\ frame'[i].label.t = "int"
                /\ frame'[i].label.v =
                      IF \E k \in DOMAIN op'.labels :
                            op'.labels[k] = frame[i].label
                      THEN op'.new_label
                      ELSE frame[i].label.v]_vars

C14_Witness ==
    /\ op.name = "update_label"
    /\ op.n = 1
    /\ op.labels = <<StrL(0), StrL(2)>>
    /\ op.new_label = 99
    /\ Len(frame) = 3
    /\ frame[1].orig = StrL(10) /\ frame[1].label = IntL(10)
    /\ frame[2].orig = StrL(2) /\ frame[2].label = IntL(99)
    /\ frame[3].orig = StrL(0) /\ frame[3].label = IntL(99)

(***************************************************************************)
(* C15.  When split(R, f) returns, every row of R is in exactly one of the *)
(* train set and the test set, the test set has ceil(f * len(R)) rows and  *)
(* the train set the others; 18 rows at f = 0.33 give 12 and 6.  It        *)
(* returns whenever every label of R has at least 2 records and each part  *)
(* gets at least one row per label.                                        *)
(***************************************************************************)
C15_SplitPartitionsTheRows ==
    op.name = "split" =>
        LET n      == Len(frame)
            rows   == {frame[i] : i \in DOMAIN frame}
            ntest  == BagCardinality(result.test)
            ntrain == BagCardinality(result.train)
            k      == Cardinality(FrameLabels)
        IN  /\ result.kind \in {"frames", "ValueError"}
            /\ result.kind = "frames" =>
                  /\ BagToSet(result.train) \cap BagToSet(result.test) = {}
                  /\ BagToSet(result.train) \cup BagToSet(result.test) = rows
                  /\ \A r \in rows :
                        (IF BagIn(r, result.train) THEN result.train[r] ELSE 0)
                        + (IF BagIn(r, result.test) THEN result.test[r] ELSE 0)
                        = 1
                  /\ ntest * op.den >= op.num * n
                  /\ (ntest - 1) * op.den < op.num * n
                  /\ ntrain = n - ntest
                  /\ (n = 18 /\ op.num = 33 /\ op.den = 100 =>
                        ntrain = 12 /\ ntest = 6)
            /\ ( /\ n > 0
                 /\ \A l \in FrameLabels : RowsWith(l) >= 2
                 /\ (k - 1) * op.den < op.num * n
                 /\ op.den * (n - k) >= op.num * n
                 /\ op.den * (n - 1) >= op.num * n
               ) => result.kind = "frames"

C15_Witness ==
    /\ op.name = "split"
    /\ frame = DataFrame(Fixture("str"))
    /\ op.num = 33 /\ op.den = 100
    /\ result.kind = "frames"
    /\ BagCardinality(result.train) = 12
    /\ BagCardinality(result.test) = 6

(***************************************************************************)
(* C19.  count_labels, find_threshold, split and filter leave the frame    *)
(* they are given as it was: the same rows with the same labels in the     *)
(* same order.  update_label rewrites the labels of the caller's frame and *)
(* returns that frame, so a helper called on the frame afterwards works on *)
(* the remapped labels.                                                    *)
(***************************************************************************)
C19_OnlyUpdateLabelTouchesTheFrame ==
    [][op'.n # op.n =>
          /\ op'.name \in {"count_labels", "find_threshold", "split",
                           "filter"} =>
                /\ frame' = frame
                /\ ~result'.same_object
          /\ op'.name = "update_label" =>
                /\ result'.same_object
                /\ result'.frame = frame'
                /\ \A i \in DOMAIN frame' : frame'[i].label.t = "int"
                /\ \A i \in DOMAIN frame :
                      frame[i].label \in Range(op'.labels) =>
                         frame'[i].label = IntL(op'.new_label)
          /\ op.name = "update_label" =>
                /\ op'.name = "count_labels" =>
                      {result'.list[i].Label : i \in DOMAIN result'.list}
                         = {result.frame[i].label : i \in DOMAIN result.frame}
                /\ op'.name = "filter" =>
                      result'.frame =
                         SelectSeq(result.frame,
                                   LAMBDA r : r.label \in Range(op'.labels))
                /\ op'.name = "find_threshold" =>
                      \A i \in DOMAIN result'.list :
                         result'.list[i].t = "int"]_vars

C19_Witness ==
    /\ op.n = 2
    /\ op.name = "count_labels"
    /\ Len(frame) = 3
    /\ \A i \in DOMAIN frame : frame[i].orig.t = "str"
    /\ frame[1].orig = StrL(0) /\ frame[1].label = IntL(99)
    /\ frame[2].orig = StrL(10) /\ frame[2].label = IntL(10)
    /\ result.list = << [Label |-> IntL(10), Count |-> 1],
                        [Label |-> IntL(99), Count |-> 2] >>

(***************************************************************************)
(* C16.  If the primary set handed to split after the remap has a label    *)
(* with fewer than 2 records, split raises and the error reaches the       *)
(* caller: main ends with ValueError, the process exits with status 1 and  *)
(* no object, primary or secondary, is written; no part without the        *)
(* sparse class is produced.                                               *)
(***************************************************************************)
SparsePrimary ==
    /\ split_arg # <<>>
    /\ \E l \in LabelsOf(split_arg[1]) : CountOf(split_arg[1], l) < 2

C16_SparseClassFailsTheRun ==
    SparsePrimary =>
        /\ pc \in {"raised", "exited"}
        /\ exc = "ValueError"
        /\ pc = "exited" => exit_status = 1
        /\ DOMAIN s3 = {}
        /\ Calls("put_object") = {}
        /\ Len(split_arg) = 1
        /\ general_train_df = EmptyBag
        /\ general_test_df = EmptyBag

C16_Witness ==
    /\ SparsePrimary
    /\ pc = "exited"
    /\ exit_status = 1
    /\ Len_df(split_arg[1]) > Bulk
    /\ \E l \in LabelsOf(split_arg[1]) : CountOf(split_arg[1], l) = Bulk

\* The windows requested by the fetches of the run, as sent to the source.
PrimaryParams ==
    window_params(events[PrimaryFetchIdx].start, events[PrimaryFetchIdx].end)
ExtParams(j) == window_params(events[j].start, events[j].end)

(***************************************************************************)
(* C17.  The extended-history fetch asks for the window from the batch     *)
(* instant minus LOW_VOLUME_PERIOD days up to, and not including, the      *)
(* start of the primary window: no closing timestamp is selected by both   *)
(* fetches of a run.                                                       *)
(***************************************************************************)
C17_FetchWindowsShareNoTimestamp ==
    \A j \in ExtFetches :
        /\ ExtParams(j).start.day + LOW_VOLUME_PERIOD
              = PrimaryParams.start.day + TRAINING_PERIOD
        /\ ExtParams(j).start.sec = PrimaryParams.start.sec
        /\ \A closed \in {PrimaryParams.start, PrimaryParams.end,
                          ExtParams(j).start, ExtParams(j).end} :
              ~(Between(closed, PrimaryParams) /\ Between(closed, ExtParams(j)))

(***************************************************************************)
(* C18.  For every valid batch id, whatever its hour, the primary fetch    *)
(* asks for a window whose start lies exactly TRAINING_PERIOD days before  *)
(* its end, the end being the first instant the window excludes.           *)
(***************************************************************************)
C18_PrimaryWindowSpansTrainingPeriod ==
    Calls("get_tickets") # {} =>
        LET last == PrimaryParams.end
            excl == IF last.sec + 1 = SecondsPerDay
                    THEN [day |-> last.day + 1, sec |-> 0]
                    ELSE [day |-> last.day, sec |-> last.sec + 1]
        IN  /\ excl.day = PrimaryParams.start.day + TRAINING_PERIOD
            /\ excl.sec = PrimaryParams.start.sec

====
